---- MODULE Spec2Model ----
(***************************************************************************)
(* Change-capture iterators of the HubSpot connector: the Snapshot         *)
(* iterator, the CDC iterator, the Combined iterator that hands off from   *)
(* one to the other, and Source.Read/Open/Teardown that drive them.        *)
(*                                                                         *)
(* Time is counted in milliseconds since the Unix epoch.  The remote API   *)
(* is the environment: its answers are computed from the request the       *)
(* client code builds (filters, sort, limit) over the remote items.        *)
(***************************************************************************)
EXTENDS Integers, Sequences, FiniteSets, TLC

(***************************************************************************)
(* Bounds of the model.                                                    *)
(***************************************************************************)
StartTime == 2000
TimeSpan == 3
MaxPre == 2
MaxItems == 2
MaxBuffer == 2
MaxReads == 4
MaxEvents == 2
MaxBatch == 3

MaxTime == StartTime + TimeSpan

(***************************************************************************)
(* Values of the program.                                                  *)
(***************************************************************************)
Epoch == 0
OneMillisecond == 1

\* time.Second, in the model's unit
OneSecond == 1000
NoTime == 0 - 1

SnapshotPositionMode == "snapshot"
CDCPositionMode == "cdc"

\* hubspot.TimestampResources: resource -> DeletedAtFieldName ("" when the
\* resource declares none); one resource of each shape is kept.
TimestampResources ==
  [r \in {"cms.blogs.posts", "cms.hubdb.tables"} |->
     IF r = "cms.blogs.posts" THEN "deletedAt" ELSE ""]

\* hubspot.SearchResources: one resource kept.
SearchResources == {"crm.contacts"}

Resources == (DOMAIN TimestampResources) \cup SearchResources

\* a nil *Position
NilPosition ==
  [mode |-> "nil", itemID |-> 0, initialTimestamp |-> NoTime, timestamp |-> NoTime]

\* ListResponse.Paging == nil / Paging.Next.Link == ""
NoLink == [createdBefore |-> NoTime, afterCreated |-> NoTime, afterID |-> 0]

VARIABLES
  now,        \* wall clock, ms
  items,      \* remote resource: items[id] = [createdAt, updatedAt, deletedAt]
  config,     \* [resource, bufferSize, snapshot]
  combined,   \* Combined: [snapshot: c.snapshot != nil, cdc: c.cdc != nil]
  snap,       \* the Snapshot object
  snapPoll,   \* Snapshot.poll goroutine: [pc, pending]
  cdc,        \* the CDC object
  cdcPoll,    \* CDC.poll goroutine: [pc, pending, updatedAfter]
  host,       \* the caller of Source.Open/Read/Teardown: [pc, opens, result]
  received,   \* records Source.Read has returned, in order
  hist,       \* history used by the properties only: [T: the instant the
              \* first Snapshot captured, resumed: the Snapshot was resumed
              \* from a Position, seed: the Timestamp handed to the last NewCDC,
              \* opened: the Position the last Open parsed, asked: the
              \* updatedAfter of the first request of the last CDC iterator,
              \* handoff: what the Read that handed off returned,
              \* given: the sdk.Position the last Open was called with]
  spent,      \* the writes, failures, teardowns and rejected opens so far
  dest        \* Destination.Write: [pc, records: the batch, i: the loop's
              \* index, calls: the calls of Writer.Write in order, each
              \* with the index of its record and the error it returned,
              \* written and err: what Write returned]

envVars == <<now, items>>
snapVars == <<snap, snapPoll>>
cdcVars == <<cdc, cdcPoll>>
vars == <<now, items, config, combined, snap, snapPoll, cdc, cdcPoll, host, received, hist, spent, dest>>

(***************************************************************************)
(* Time.                                                                   *)
(***************************************************************************)
\* A remote request takes a millisecond or more each way.  A step that issues
\* a request takes place when the server evaluates it: the client built the
\* request RequestLatency before, and the clock has moved on by as much when
\* the answer is in, whether the request succeeded or failed.
RequestLatency == 1

\* a clock that was read once, when the program started
TimeNowAtStart == StartTime - RequestLatency

\* time.Now() as a constructor reads it before it sends its first request
TimeNow == now - RequestLatency

(***************************************************************************)
(* Helpers.                                                                *)
(***************************************************************************)
Last(s) == s[Len(s)]

Min2(a, b) == IF a < b THEN a ELSE b

\* the first n elements of s
Take(s, n) == SubSeq(s, 1, Min2(n, Len(s)))

\* time.Time.Unix(): whole seconds since the epoch, rounded down
Unix(t) == t \div 1000

\* the ids of S ordered by (key[id], id) ascending
RECURSIVE SortBy(_, _)
SortBy(S, key) ==
  IF S = {} THEN <<>>
  ELSE LET m == CHOOSE i \in S :
                  \A j \in S : key[i] < key[j] \/ (key[i] = key[j] /\ i <= j)
       IN <<m>> \o SortBy(S \ {m}, key)

ItemIDs == 1..Len(items)

\* a result object of a ListResponse: the item's fields as of the request
Result(i) ==
  [id |-> i, createdAt |-> items[i].createdAt,
   updatedAt |-> items[i].updatedAt, deletedAt |-> items[i].deletedAt]

Archived(i) == items[i].deletedAt # Epoch

CreatedKey == [i \in ItemIDs |-> items[i].createdAt]
UpdatedKey == [i \in ItemIDs |-> items[i].updatedAt]

\* a page of at most limit results out of the matching ids, with paging info
\* present exactly when more results remain
Page(matching, key, limit, createdBefore) ==
  LET sorted == SortBy(matching, key)
      page == Take(sorted, limit)
      more == Len(sorted) > limit
  IN [results |-> [k \in 1..Len(page) |-> Result(page[k])],
      paging |-> more,
      link |-> IF more
               THEN [createdBefore |-> createdBefore,
                     afterCreated |-> items[Last(page)].createdAt,
                     afterID |-> Last(page)]
               ELSE NoLink]

(***************************************************************************)
(* The remote API, as the client's requests address it.                    *)
(***************************************************************************)
\* Client.List with ListOptions{Limit, CreatedBefore, Sort: created}:
\* live items created before the bound, by creation time ascending
ListCreatedBefore(createdBefore, limit) ==
  Page({i \in ItemIDs : ~Archived(i) /\ items[i].createdAt < createdBefore},
       CreatedKey, limit, createdBefore)

\* Client.ListByNextLink: the link carries the filter and the place to go on
ListByNextLink(link) ==
  Page({i \in ItemIDs :
          /\ ~Archived(i)
          /\ items[i].createdAt < link.createdBefore
          /\ \/ items[i].createdAt > link.afterCreated
             \/ (items[i].createdAt = link.afterCreated /\ i > link.afterID)},
       CreatedKey, config.bufferSize, link.createdBefore)

\* Client.SearchByCreatedBefore: createdate LTE bound, hs_object_id GTE after
\* (the id filter is added only when after != 0), by creation time ascending.
\* The search endpoint gives paging without a link.
SearchByCreatedBefore(createdBefore, limit, after) ==
  LET p == Page({i \in ItemIDs :
                   /\ ~Archived(i)
                   /\ items[i].createdAt <= createdBefore
                   /\ (after # 0 => i >= after)},
                CreatedKey, limit, createdBefore)
  IN [p EXCEPT !.link = NoLink]

\* Client.List with ListOptions{Limit, UpdatedAfter, Sort: updatedAt,
\* Archived: true}: items, archived ones included, updated at or after the
\* bound, by update time ascending
ListUpdatedAfter(updatedAfter, limit) ==
  Page({i \in ItemIDs : items[i].updatedAt >= updatedAfter},
       UpdatedKey, limit, NoTime)

\* Client.SearchByUpdatedAfter: lastmodifieddate GTE bound, by update time
SearchByUpdatedAfter(updatedAfter, limit) ==
  Page({i \in ItemIDs : ~Archived(i) /\ items[i].updatedAt >= updatedAfter},
       UpdatedKey, limit, NoTime)

(***************************************************************************)
(* Position (source/iterator/position.go).                                 *)
(***************************************************************************)
\* a layout without the fraction of the second
FormatTimeSeconds(t) ==
  [seconds |-> t \div OneSecond, fraction |-> 0, zone |-> "Z"]

\* json.Marshal of a time.Time: the RFC 3339 text, that is the whole seconds,
\* the fraction and the zone; every time of a Position is in UTC
FormatTime(t) ==
  [seconds |-> t \div OneSecond, fraction |-> t % OneSecond, zone |-> "Z"]

\* json.Unmarshal into a time.Time
ParseTime(j) == j.seconds * OneSecond + j.fraction

\* Position.MarshalSDKPosition: the JSON object; itemId and the two
\* timestamps carry omitempty, so a zero id and nil timestamps are left out
MarshalSDKPosition(p) ==
  LET keys == {"mode"}
                \cup (IF p.itemID # 0 THEN {"itemId"} ELSE {})
                \cup (IF p.initialTimestamp # NoTime THEN {"initialTimestamp"} ELSE {})
                \cup (IF p.timestamp # NoTime THEN {"timestamp"} ELSE {})
  IN [k \in keys |->
        CASE k = "mode" -> p.mode
          [] k = "itemId" -> p.itemID
          [] k = "initialTimestamp" -> FormatTime(p.initialTimestamp)
          [] k = "timestamp" -> FormatTime(p.timestamp)]

\* a zero-length sdk.Position
EmptySDKPosition == [k \in {} |-> 0]

\* bytes that are no JSON document (position_test.go: "invalid_json"); the
\* one key stands for the text, which has no keys of its own
InvalidSDKPosition == [k \in {"invalid_json"} |-> "invalid_json"]

\* json.Unmarshal's verdict on the bytes
IsJSON(w) == "invalid_json" \notin DOMAIN w

\* the Position json.Unmarshal fills in: absent keys leave the zero value /
\* nil
UnmarshalPosition(w) ==
  [mode |-> IF "mode" \in DOMAIN w THEN w["mode"] ELSE "",
   itemID |-> IF "itemId" \in DOMAIN w THEN w["itemId"] ELSE 0,
   initialTimestamp |->
     IF "initialTimestamp" \in DOMAIN w
     THEN ParseTime(w["initialTimestamp"]) ELSE NoTime,
   timestamp |->
     IF "timestamp" \in DOMAIN w THEN ParseTime(w["timestamp"]) ELSE NoTime]

\* ParsePosition, the error it returns: ErrEmptyPosition on a zero-length
\* input, the wrapped error of json.Unmarshal on bytes that do not parse
ParsePositionErr(w) ==
  IF DOMAIN w = {} THEN "ErrEmptyPosition"
  ELSE IF ~IsJSON(w) THEN "unmarshal sdk.Position into Position"
  ELSE "nil"

\* a ParsePosition that hands out the zero Position with its errors
ParsePositionDefault(w) ==
  IF DOMAIN w = {} THEN NilPosition
  ELSE IF ~IsJSON(w) THEN UnmarshalPosition(EmptySDKPosition)
  ELSE UnmarshalPosition(w)

\* ParsePosition, the *Position it returns: nil with either error
ParsePosition(w) ==
  IF DOMAIN w = {} THEN NilPosition
  ELSE IF ~IsJSON(w) THEN NilPosition
  ELSE UnmarshalPosition(w)

(***************************************************************************)
(* Snapshot (iterator/snapshot.go).                                        *)
(***************************************************************************)
\* no Snapshot object.  session: the Open that made the object (kept for the
\* properties, as the field of that name in the records)
NoSnapshot ==
  [initialTimestamp |-> NoTime, nextLink |-> NoLink, hasMoreItems |-> FALSE,
   position |-> NilPosition, posAlias |-> FALSE,
   records |-> <<>>, errC |-> <<>>, stopC |-> 0, session |-> 0]

\* ctxDone: the context handed to poll has been cancelled
NoPoll ==
  [pc |-> "none", pending |-> <<>>, updatedAfter |-> NoTime, ctxDone |-> FALSE]

\* the Position read without following the pointer
SnapshotPositionUnfollowed(s) == s.position

\* the Snapshot's Position with its InitialTimestamp pointer followed:
\* a fresh Snapshot points it at its own initialTimestamp field
SnapshotPosition(s) ==
  IF s.posAlias
  THEN [s.position EXCEPT !.initialTimestamp = s.initialTimestamp]
  ELSE s.position

\* Snapshot.listTimestampBasedItems
listTimestampBasedItems(s) ==
  IF s.nextLink # NoLink
  THEN ListByNextLink(s.nextLink)
  ELSE ListCreatedBefore(s.initialTimestamp, config.bufferSize)

\* Snapshot.listSearchBasedItems: the position is never nil once constructed
listSearchBasedItems(s) ==
  SearchByCreatedBefore(s.initialTimestamp, config.bufferSize, s.position.itemID + 1)

\* Snapshot.listItems
listItems(s) ==
  IF config.resource \in DOMAIN TimestampResources
  THEN listTimestampBasedItems(s)
  ELSE listSearchBasedItems(s)

\* Snapshot.loadRecords, up to the loop: paging info of the response
SnapshotTakePaging(s, resp) ==
  [s EXCEPT !.hasMoreItems = resp.paging,
            !.nextLink = IF resp.paging THEN resp.link ELSE NoLink]

\* one turn of the loop that marshals the position before it takes the item
SnapshotPushItemStale(s, item) ==
  LET pos == [s.position EXCEPT !.timestamp = item.createdAt, !.itemID = item.id]
      s1 == [s EXCEPT !.position = pos]
      rec == [operation |-> "snapshot",
              position |-> MarshalSDKPosition(SnapshotPosition(s)),
              key |-> pos.itemID,
              createdAt |-> item.createdAt,
              payload |-> TRUE,
              from |-> [item |-> item, updatedAfter |-> NoTime],
              session |-> s.session]
  IN [s1 EXCEPT !.records = Append(@, rec)]

\* Snapshot.loadRecords, one turn of the loop: the running position takes the
\* item's id and creation time, is marshalled, and the record is queued
SnapshotPushItem(s, item) ==
  LET pos == [s.position EXCEPT !.timestamp = item.createdAt, !.itemID = item.id]
      s1 == [s EXCEPT !.position = pos]
      rec == [operation |-> "snapshot",
              position |-> MarshalSDKPosition(SnapshotPosition(s1)),
              key |-> pos.itemID,
              createdAt |-> item.createdAt,
              payload |-> TRUE,
              from |-> [item |-> item, updatedAfter |-> NoTime],
              session |-> s.session]
  IN [s1 EXCEPT !.records = Append(@, rec)]

RECURSIVE SnapshotPushAll(_, _)
SnapshotPushAll(s, results) ==
  IF results = <<>> THEN s
  ELSE SnapshotPushAll(SnapshotPushItem(s, Head(results)), Tail(results))

\* NewSnapshot up to the initial load
SnapshotConstruct(pos) ==
  IF pos # NilPosition /\ pos.initialTimestamp # NoTime
  THEN [NoSnapshot EXCEPT !.initialTimestamp = pos.initialTimestamp,
                          !.position = pos,
                          !.session = host.opens + 1]
  ELSE [NoSnapshot EXCEPT !.initialTimestamp = TimeNow,
                          !.session = host.opens + 1,
                          !.position = [NilPosition EXCEPT !.mode = SnapshotPositionMode],
                          !.posAlias = TRUE]

\* Snapshot.HasNext
SnapshotHasNext(s) == Len(s.records) > 0 \/ s.hasMoreItems

(***************************************************************************)
(* CDC (iterator/cdc.go).                                                  *)
(***************************************************************************)
\* no CDC object.  tsAlias: position.Timestamp points at the Snapshot's
\* initialTimestamp field (the pointer switchToCDCIterator passes in)
NoCDC ==
  [position |-> NilPosition, tsAlias |-> FALSE,
   records |-> <<>>, errC |-> <<>>, stopC |-> 0, session |-> 0]

\* *c.position.Timestamp
CDCTimestamp(c, s) ==
  IF c.tsAlias THEN s.initialTimestamp ELSE c.position.timestamp

\* a shift that goes backwards
ShiftedTimestampBackwards(t) == t - OneMillisecond

\* the shift of CDC.loadRecords: Timestamp.Add(time.Millisecond)
ShiftedTimestamp(t) == t + OneMillisecond

\* the DeletedAtFieldName handed to routeItem ("" for search resources)
DeletedAtFieldName(resource) ==
  IF resource \in DOMAIN TimestampResources THEN TimestampResources[resource] ELSE ""

\* CDC.processUpdatedItems: the request of the resource's family
processUpdatedItems(updatedAfter) ==
  IF config.resource \in DOMAIN TimestampResources
  THEN ListUpdatedAfter(updatedAfter, config.bufferSize)
  ELSE SearchByUpdatedAfter(updatedAfter, config.bufferSize)

\* a classification that calls an item created before the bound a snapshot
getRecordOperationSnapshot(itemCreatedAt, itemDeletedAt, updatedAfter) ==
  IF Unix(itemDeletedAt) > 0 THEN "delete"
  ELSE IF itemCreatedAt > updatedAfter THEN "create"
  ELSE "snapshot"

\* CDC.getRecord: the operation of the record
getRecordOperation(itemCreatedAt, itemDeletedAt, updatedAfter) ==
  IF Unix(itemDeletedAt) > 0 THEN "delete"
  ELSE IF itemCreatedAt > updatedAfter THEN "create"
  ELSE "update"

\* a Position that stays a millisecond behind the item's update time
CDCItemPositionBehind(item, timestamp) ==
  [mode |-> CDCPositionMode, itemID |-> item.id,
   initialTimestamp |-> NoTime, timestamp |-> timestamp - OneMillisecond]

\* CDC.getItemPosition
CDCItemPosition(item, timestamp) ==
  [mode |-> CDCPositionMode, itemID |-> item.id,
   initialTimestamp |-> NoTime, timestamp |-> timestamp]

\* CDC.routeItem: the position is replaced by the item's (update time), the
\* record is classified against updatedAfter and queued
CDCRouteItem(c, item, updatedAfter) ==
  LET itemDeletedAt == IF DeletedAtFieldName(config.resource) # ""
                       THEN item.deletedAt ELSE Epoch
      pos == CDCItemPosition(item, item.updatedAt)
      op == getRecordOperation(item.createdAt, itemDeletedAt, updatedAfter)
      rec == [operation |-> op,
              position |-> MarshalSDKPosition(pos),
              key |-> pos.itemID,
              createdAt |-> item.createdAt,
              payload |-> op # "delete",
              from |-> [item |-> item, updatedAfter |-> updatedAfter],
              session |-> c.session]
  IN [c EXCEPT !.position = pos, !.tsAlias = FALSE, !.records = Append(@, rec)]

RECURSIVE CDCRouteAll(_, _, _)
CDCRouteAll(c, results, updatedAfter) ==
  IF results = <<>> THEN c
  ELSE CDCRouteAll(CDCRouteItem(c, Head(results), updatedAfter),
                   Tail(results), updatedAfter)

\* the CDC object after the shift of loadRecords
CDCShifted(c, s) ==
  IF c.tsAlias THEN c
  ELSE [c EXCEPT !.position.timestamp = ShiftedTimestamp(@)]

\* the Snapshot object after the shift of CDC.loadRecords: the write goes
\* through the pointer, so it lands in the Snapshot when the pointer is its
SnapshotAfterCDCShift(c, s) ==
  IF c.tsAlias
  THEN [s EXCEPT !.initialTimestamp = ShiftedTimestamp(@)]
  ELSE s

\* a construction that takes the clock whatever Position it is given
CDCConstructFresh(pos) ==
  [NoCDC EXCEPT !.position = [NilPosition EXCEPT !.mode = CDCPositionMode,
                                                 !.timestamp = TimeNow],
                !.session = host.opens + 1]

\* NewCDC up to the initial load, for a Position given by value
CDCConstruct(pos) ==
  IF pos = NilPosition \/ pos.timestamp = NoTime
  THEN [NoCDC EXCEPT !.position = [NilPosition EXCEPT !.mode = CDCPositionMode,
                                                      !.timestamp = TimeNow],
                     !.session = host.opens + 1]
  ELSE [NoCDC EXCEPT !.position = pos, !.session = host.opens + 1]

\* a HasNext that never reports false
CDCHasNextAlways(c) == Len(c.records) >= 0

\* CDC.HasNext
CDCHasNext(c) == Len(c.records) > 0

(***************************************************************************)
(* Destination (destination/destination.go, destination/writer/writer.go).  *)
(***************************************************************************)
\* the records a batch is made of: the operation, whether the key and the
\* payload hold data
DestinationRecords ==
  [operation : {"create", "update", "delete", "snapshot"},
   key : BOOLEAN, payload : BOOLEAN]

\* the batches handed to Destination.Write
Batches == UNION {[1..n -> DestinationRecords] : n \in 0..MaxBatch}

\* no call of Destination.Write yet
NoWrite ==
  [pc |-> "idle", records |-> <<>>, i |-> 0, calls |-> <<>>,
   written |-> 0, err |-> "nil"]

\* Writer.insert: the payload must hold data, then Client.Create
WriterInsert(record, ok) ==
  IF ~record.payload THEN "ErrEmptyPayload"
  ELSE IF ~ok THEN "create item"
  ELSE "nil"

\* Writer.update: the key, then the payload, then Client.Update
WriterUpdate(record, ok) ==
  IF ~record.key THEN "ErrEmptyKey"
  ELSE IF ~record.payload THEN "ErrEmptyPayload"
  ELSE IF ~ok THEN "update item"
  ELSE "nil"

\* Writer.delete: the key, then Client.Delete
WriterDelete(record, ok) ==
  IF ~record.key THEN "ErrEmptyKey"
  ELSE IF ~ok THEN "delete item"
  ELSE "nil"

\* Writer.Write: Route(record, insert, update, delete, insert); ok is the
\* answer of the remote call, if one is made
WriterWrite(record, ok) ==
  CASE record.operation \in {"create", "snapshot"} -> WriterInsert(record, ok)
    [] record.operation = "update" -> WriterUpdate(record, ok)
    [] record.operation = "delete" -> WriterDelete(record, ok)

\* the host calls Destination.Write with a batch
DestinationWriteBegin ==
  /\ dest.pc = "idle"
  /\ \E records \in Batches :
       dest' = [NoWrite EXCEPT !.pc = "writing", !.records = records]
  /\ UNCHANGED <<now, items, config, combined, snap, snapPoll, cdc, cdcPoll, host, received, hist, spent>>

\* a loop that goes on to the next record after a failure, and returns the
\* last error
DestinationWriteRecordGoOn ==
  /\ dest.pc = "writing"
  /\ dest.i < Len(dest.records)
  /\ \E ok \in BOOLEAN :
       LET err == WriterWrite(dest.records[dest.i + 1], ok)
       IN dest' = [dest EXCEPT !.calls = Append(@, [i |-> dest.i, err |-> err]),
                               !.i = @ + 1,
                               !.written = IF err = "nil" THEN @ + 1 ELSE @,
                               !.err = IF err = "nil" THEN @ ELSE "write record"]
  /\ UNCHANGED <<now, items, config, combined, snap, snapPoll, cdc, cdcPoll, host, received, hist, spent>>

\* one turn of the loop of Destination.Write: Writer.Write of records[i];
\* with an error Write returns i and the error
DestinationWriteRecord ==
  /\ dest.pc = "writing"
  /\ dest.i < Len(dest.records)
  /\ \E ok \in BOOLEAN :
       LET err == WriterWrite(dest.records[dest.i + 1], ok)
       IN dest' = IF err = "nil"
                  THEN [dest EXCEPT !.calls = Append(@, [i |-> dest.i, err |-> err]), !.i = @ + 1]
                  ELSE [dest EXCEPT !.calls = Append(@, [i |-> dest.i, err |-> err]),
                                    !.pc = "returned",
                                    !.written = dest.i,
                                    !.err = "write record"]
  /\ UNCHANGED <<now, items, config, combined, snap, snapPoll, cdc, cdcPoll, host, received, hist, spent>>

\* the loop is over: Write returns len(records) and no error
DestinationWriteReturn ==
  /\ dest.pc = "writing"
  /\ dest.i = Len(dest.records)
  /\ dest' = [dest EXCEPT !.pc = "returned", !.written = Len(dest.records)]
  /\ UNCHANGED <<now, items, config, combined, snap, snapPoll, cdc, cdcPoll, host, received, hist, spent>>

(***************************************************************************)
(* Initial state: the resource already holds some items, created before    *)
(* the clock's first value; nothing is opened yet.                         *)
(***************************************************************************)
PreTimes == (StartTime - 3)..(StartTime - 2)

PreItems == {[createdAt |-> t, updatedAt |-> t, deletedAt |-> Epoch] : t \in PreTimes}

Init ==
  /\ now = StartTime
  /\ items \in UNION {[1..n -> PreItems] : n \in 0..MaxPre}
  /\ config \in [resource : Resources, bufferSize : 1..MaxBuffer, snapshot : BOOLEAN]
  /\ combined = [snapshot |-> FALSE, cdc |-> FALSE]
  /\ snap = NoSnapshot
  /\ snapPoll = NoPoll
  /\ cdc = NoCDC
  /\ cdcPoll = NoPoll
  /\ host = [pc |-> "closed", opens |-> 0, result |-> "none"]
  /\ received = <<>>
  /\ hist = [T |-> NoTime, resumed |-> FALSE, seed |-> NoTime,
             opened |-> NilPosition, asked |-> NoTime, handoff |-> "none",
             given |-> EmptySDKPosition]
  /\ spent = [writes |-> 0, failures |-> 0, teardowns |-> 0, rejects |-> 0, cancels |-> 0,
              unseen |-> FALSE]
  /\ dest = NoWrite

(***************************************************************************)
(* The environment: the writers of the remote resource.                    *)
(***************************************************************************)
\* the events spent so far: writes to the resource, failed requests,
\* teardowns of the source, opens rejected for their position and
\* cancellations of a context
Events ==
  spent.writes + spent.failures + spent.teardowns + spent.rejects + spent.cancels

\* a write creates k items (a batch when k > 1) within one millisecond
CreateItems(k) ==
  /\ Events < MaxEvents
  /\ spent' = [spent EXCEPT !.writes = @ + 1, !.unseen = TRUE]
  /\ Len(items) + k <= MaxItems
  /\ items' = items \o [j \in 1..k |->
                          [createdAt |-> now, updatedAt |-> now, deletedAt |-> Epoch]]
  /\ UNCHANGED <<now, config, combined, snap, snapPoll, cdc, cdcPoll, host, received, hist, dest>>

\* a write updates the live items of S (a batch when S has several)
UpdateItems(S) ==
  /\ Events < MaxEvents
  /\ spent' = [spent EXCEPT !.writes = @ + 1, !.unseen = TRUE]
  /\ S # {}
  /\ \A i \in S : ~Archived(i) /\ items[i].updatedAt < now
  /\ items' = [i \in ItemIDs |->
                 IF i \in S THEN [items[i] EXCEPT !.updatedAt = now] ELSE items[i]]
  /\ UNCHANGED <<now, config, combined, snap, snapPoll, cdc, cdcPoll, host, received, hist, dest>>

\* a write archives an item
DeleteItem(i) ==
  /\ Events < MaxEvents
  /\ spent' = [spent EXCEPT !.writes = @ + 1, !.unseen = TRUE]
  /\ ~Archived(i)
  /\ items[i].updatedAt < now
  /\ items' = [items EXCEPT ![i].updatedAt = now, ![i].deletedAt = now]
  /\ UNCHANGED <<now, config, combined, snap, snapPoll, cdc, cdcPoll, host, received, hist, dest>>

\* A write to the resource is seen by requests only, and it commutes with
\* every step that issues none: writes are taken right before the request
\* that sees them first, so a step that issues no request waits for it
Quiet == ~spent.unseen

CanRequest == now + RequestLatency <= MaxTime

AfterRequest == now + RequestLatency

(***************************************************************************)
(* Snapshot.poll: the background task of the Snapshot.                     *)
(***************************************************************************)
\* a tick: loadRecords up to its loop; the page's items are pushed one by one
SnapshotPollLoad ==
  /\ spent' = [spent EXCEPT !.unseen = FALSE]
  /\ CanRequest
  /\ now' = AfterRequest
  /\ snapPoll.pc = "idle"
  /\ ~snapPoll.ctxDone
  /\ LET resp == listItems(snap)
     IN /\ snap' = SnapshotTakePaging(snap, resp)
        /\ snapPoll' = [snapPoll EXCEPT !.pending = resp.results,
                          !.pc = IF resp.results = <<>> THEN "idle" ELSE "push"]
  /\ UNCHANGED <<items, config, combined, cdc, cdcPoll, host, received, hist, dest>>

\* a tick whose request fails: listItems returns the error before any
\* assignment, and poll goes on to hand the error to errC
SnapshotPollLoadFail ==
  /\ CanRequest
  /\ now' = AfterRequest
  /\ Events < MaxEvents
  /\ spent' = [spent EXCEPT !.failures = @ + 1, !.unseen = FALSE]
  /\ snapPoll.pc = "idle"
  /\ snapPoll' = [snapPoll EXCEPT !.pc = "senderr"]
  /\ UNCHANGED <<items, config, combined, snap, cdc, cdcPoll, host, received, hist, dest>>

\* a push that does not wait for room in the queue
SnapshotPollPushUnbounded ==
  /\ Quiet
  /\ snapPoll.pc = "push"
  /\ snap' = SnapshotPushItem(snap, Head(snapPoll.pending))
  /\ snapPoll' = [snapPoll EXCEPT !.pending = Tail(@),
                    !.pc = IF Tail(snapPoll.pending) = <<>> THEN "idle" ELSE "push"]
  /\ UNCHANGED <<now, items, config, combined, cdc, cdcPoll, host, received, hist, spent, dest>>

\* s.records <- record: blocks while the queue is full
SnapshotPollPush ==
  /\ Quiet
  /\ snapPoll.pc = "push"
  /\ Len(snap.records) < config.bufferSize
  /\ snap' = SnapshotPushItem(snap, Head(snapPoll.pending))
  /\ snapPoll' = [snapPoll EXCEPT !.pending = Tail(@),
                    !.pc = IF Tail(snapPoll.pending) = <<>> THEN "idle" ELSE "push"]
  /\ UNCHANGED <<now, items, config, combined, cdc, cdcPoll, host, received, hist, spent, dest>>

\* s.errC <- err: blocks while the one slot is taken
SnapshotPollSendErr ==
  /\ Quiet
  /\ snapPoll.pc = "senderr"
  /\ snap.errC = <<>>
  /\ snap' = [snap EXCEPT !.errC = <<"load records">>]
  /\ snapPoll' = [snapPoll EXCEPT !.pc = "idle"]
  /\ UNCHANGED <<now, items, config, combined, cdc, cdcPoll, host, received, hist, spent, dest>>

\* case <-s.stopC: return
SnapshotPollExit ==
  /\ Quiet
  /\ snapPoll.pc = "idle"
  /\ snap.stopC > 0
  /\ snap' = [snap EXCEPT !.stopC = @ - 1]
  /\ snapPoll' = [snapPoll EXCEPT !.pc = "exited"]
  /\ UNCHANGED <<now, items, config, combined, cdc, cdcPoll, host, received, hist, spent, dest>>

\* case <-ctx.Done(): return
SnapshotPollDone ==
  /\ Quiet
  /\ snapPoll.pc = "idle"
  /\ snapPoll.ctxDone
  /\ snapPoll' = [snapPoll EXCEPT !.pc = "exited"]
  /\ UNCHANGED <<now, items, config, combined, snap, cdc, cdcPoll, host, received, hist, spent, dest>>

(***************************************************************************)
(* CDC.poll: the background task of the CDC iterator.                      *)
(***************************************************************************)
\* a tick: loadRecords shifts the timestamp and asks for the changes
CDCPollLoad ==
  /\ spent' = [spent EXCEPT !.unseen = FALSE]
  /\ CanRequest
  /\ now' = AfterRequest
  /\ cdcPoll.pc = "idle"
  /\ ~cdcPoll.ctxDone
  /\ LET c1 == CDCShifted(cdc, snap)
         s1 == SnapshotAfterCDCShift(cdc, snap)
         updatedAfter == CDCTimestamp(c1, s1)
         resp == processUpdatedItems(updatedAfter)
     IN /\ cdc' = c1
        /\ snap' = s1
        /\ cdcPoll' = [cdcPoll EXCEPT
                         !.pc = IF resp.results = <<>> THEN "idle" ELSE "push",
                         !.pending = resp.results,
                         !.updatedAfter = updatedAfter]
  /\ UNCHANGED <<items, config, combined, snapPoll, host, received, hist, dest>>

\* a tick whose request fails: the shift has been applied already
CDCPollLoadFail ==
  /\ CanRequest
  /\ now' = AfterRequest
  /\ Events < MaxEvents
  /\ spent' = [spent EXCEPT !.failures = @ + 1, !.unseen = FALSE]
  /\ cdcPoll.pc = "idle"
  /\ cdc' = CDCShifted(cdc, snap)
  /\ snap' = SnapshotAfterCDCShift(cdc, snap)
  /\ cdcPoll' = [cdcPoll EXCEPT !.pc = "senderr"]
  /\ UNCHANGED <<items, config, combined, snapPoll, host, received, hist, dest>>

\* routeItem of the next item of the page; c.records <- record blocks while
\* the queue is full
CDCPollPush ==
  /\ Quiet
  /\ cdcPoll.pc = "push"
  /\ Len(cdc.records) < config.bufferSize
  /\ cdc' = CDCRouteItem(cdc, Head(cdcPoll.pending), cdcPoll.updatedAfter)
  /\ cdcPoll' = [cdcPoll EXCEPT !.pending = Tail(@),
                   !.pc = IF Tail(cdcPoll.pending) = <<>> THEN "idle" ELSE "push"]
  /\ UNCHANGED <<now, items, config, combined, snap, snapPoll, host, received, hist, spent, dest>>

CDCPollSendErr ==
  /\ Quiet
  /\ cdcPoll.pc = "senderr"
  /\ cdc.errC = <<>>
  /\ cdc' = [cdc EXCEPT !.errC = <<"load records">>]
  /\ cdcPoll' = [cdcPoll EXCEPT !.pc = "idle"]
  /\ UNCHANGED <<now, items, config, combined, snap, snapPoll, host, received, hist, spent, dest>>

CDCPollExit ==
  /\ Quiet
  /\ cdcPoll.pc = "idle"
  /\ cdc.stopC > 0
  /\ cdc' = [cdc EXCEPT !.stopC = @ - 1]
  /\ cdcPoll' = [cdcPoll EXCEPT !.pc = "exited"]
  /\ UNCHANGED <<now, items, config, combined, snap, snapPoll, host, received, hist, spent, dest>>

\* case <-ctx.Done(): return
CDCPollDone ==
  /\ Quiet
  /\ cdcPoll.pc = "idle"
  /\ cdcPoll.ctxDone
  /\ cdcPoll' = [cdcPoll EXCEPT !.pc = "exited"]
  /\ UNCHANGED <<now, items, config, combined, snap, snapPoll, cdc, host, received, hist, spent, dest>>

\* a poll task that was started and has not returned
PollAlive(poll) == poll.pc \notin {"none", "exited"}

\* the host cancels, between two calls, the context it handed to the call
\* that started the Snapshot's poll: the one of Open
SnapshotContextCancelled ==
  /\ Quiet
  /\ Events < MaxEvents
  /\ spent' = [spent EXCEPT !.cancels = @ + 1]
  /\ host.pc = "idle"
  /\ PollAlive(snapPoll)
  /\ ~snapPoll.ctxDone
  /\ snapPoll' = [snapPoll EXCEPT !.ctxDone = TRUE]
  /\ UNCHANGED <<now, items, config, combined, snap, cdc, cdcPoll, host, received, hist, dest>>

\* the host cancels, between two calls, the context it handed to the call
\* that started the CDC iterator's poll: the one of Open, or the one of the
\* Read whose HasNext switched to the CDC iterator
CDCContextCancelled ==
  /\ Quiet
  /\ Events < MaxEvents
  /\ spent' = [spent EXCEPT !.cancels = @ + 1]
  /\ host.pc = "idle"
  /\ PollAlive(cdcPoll)
  /\ ~cdcPoll.ctxDone
  /\ cdcPoll' = [cdcPoll EXCEPT !.ctxDone = TRUE]
  /\ UNCHANGED <<now, items, config, combined, snap, snapPoll, cdc, host, received, hist, dest>>

(***************************************************************************)
(* The host: Source.Open, Source.Read (Combined.HasNext, Combined.Next)    *)
(* and Source.Teardown (Combined.Stop).                                    *)
(***************************************************************************)
\* the position the host hands to Open: the one of the last record it got
ResumePosition ==
  IF received = <<>> THEN EmptySDKPosition ELSE Last(received).position

\* a position that some other program wrote: its mode is none of ours
ForeignSDKPosition == [k \in {"mode"} |-> "unknown"]

\* the positions a host may hand to Open: the one it resumes from, or, when
\* it has received nothing yet, a foreign one
OpenPositions ==
  {ResumePosition}
    \cup (IF received = <<>> THEN {ForeignSDKPosition, InvalidSDKPosition} ELSE {})

\* an Open that goes on with whatever ParsePosition returned
OpenAcceptsAll(w) == TRUE

\* Source.Open goes on to NewCombined: err == nil, or errors.Is(err,
\* ErrEmptyPosition)
OpenAccepts(w) == ParsePositionErr(w) \in {"nil", "ErrEmptyPosition"}

\* the branch NewCombined takes
StartsWithSnapshot(pos) ==
  config.snapshot /\ (pos = NilPosition \/ pos.mode = SnapshotPositionMode)

\* a second branch that takes every Position, whatever its mode
StartsWithCDCAnyMode(pos) ==
  ~config.snapshot \/ pos # NilPosition

StartsWithCDC(pos) ==
  ~config.snapshot \/ (pos # NilPosition /\ pos.mode = CDCPositionMode)

\* Source.Open -> NewCombined -> NewSnapshot: construction, the initial load
\* (a page never exceeds the empty queue's capacity), go poll
OpenSnapshot ==
  /\ spent' = [spent EXCEPT !.unseen = FALSE]
  /\ CanRequest
  /\ now' = AfterRequest
  /\ host.pc = "closed"
  /\ \E w \in OpenPositions :
       LET pos == ParsePosition(w)
           s0 == SnapshotConstruct(pos)
           resp == listItems(s0)
       IN /\ OpenAccepts(w)
          /\ StartsWithSnapshot(pos)
          /\ host' = [pc |-> "idle", opens |-> host.opens + 1, result |-> "none"]
          /\ snap' = SnapshotPushAll(SnapshotTakePaging(s0, resp), resp.results)
          /\ hist' = IF s0.posAlias
                     THEN [hist EXCEPT !.T = s0.initialTimestamp, !.resumed = FALSE,
                                       !.opened = pos, !.handoff = "none",
                                       !.given = w]
                     ELSE [hist EXCEPT !.resumed = TRUE,
                                       !.opened = pos, !.handoff = "none",
                                       !.given = w]
  /\ snapPoll' = [NoPoll EXCEPT !.pc = "idle"]
  /\ combined' = [snapshot |-> TRUE, cdc |-> FALSE]
  /\ cdc' = NoCDC
  /\ cdcPoll' = NoPoll
  /\ UNCHANGED <<items, config, received, dest>>

\* Source.Open -> NewCombined -> NewCDC
OpenCDC ==
  /\ spent' = [spent EXCEPT !.unseen = FALSE]
  /\ CanRequest
  /\ now' = AfterRequest
  /\ host.pc = "closed"
  /\ \E w \in OpenPositions :
       LET pos == ParsePosition(w)
           c0 == CDCConstruct(pos)
           c1 == CDCShifted(c0, NoSnapshot)
           updatedAfter == c1.position.timestamp
           resp == processUpdatedItems(updatedAfter)
       IN /\ OpenAccepts(w)
          /\ ~StartsWithSnapshot(pos)
          /\ StartsWithCDC(pos)
          /\ host' = [pc |-> "idle", opens |-> host.opens + 1, result |-> "none"]
          /\ cdc' = CDCRouteAll(c1, resp.results, updatedAfter)
          /\ hist' = [hist EXCEPT !.seed = c0.position.timestamp,
                                  !.opened = pos, !.asked = updatedAfter,
                                  !.handoff = "none", !.given = w]
  /\ cdcPoll' = [NoPoll EXCEPT !.pc = "idle"]
  /\ combined' = [snapshot |-> FALSE, cdc |-> TRUE]
  /\ snap' = NoSnapshot
  /\ snapPoll' = NoPoll
  /\ UNCHANGED <<items, config, received, dest>>

\* Source.Open whose initial load fails: no iterator is kept
OpenFail ==
  /\ CanRequest
  /\ now' = AfterRequest
  /\ Events < MaxEvents
  /\ spent' = [spent EXCEPT !.failures = @ + 1, !.unseen = FALSE]
  /\ host.pc = "closed"
  /\ \E w \in OpenPositions :
       LET pos == ParsePosition(w)
       IN /\ OpenAccepts(w)
          /\ StartsWithSnapshot(pos) \/ StartsWithCDC(pos)
          /\ hist' = [hist EXCEPT !.opened = pos, !.given = w]
  /\ host' = [host EXCEPT !.opens = @ + 1, !.result = "error"]
  /\ combined' = [snapshot |-> FALSE, cdc |-> FALSE]
  /\ snap' = NoSnapshot
  /\ snapPoll' = NoPoll
  /\ cdc' = NoCDC
  /\ cdcPoll' = NoPoll
  /\ UNCHANGED <<items, config, received, dest>>

\* Source.Open -> NewCombined, default case: the position's mode fits no
\* branch; no request is issued, no iterator is constructed
OpenInvalidMode ==
  /\ Quiet
  /\ Events < MaxEvents
  /\ spent' = [spent EXCEPT !.rejects = @ + 1]
  /\ host.pc = "closed"
  /\ \E w \in OpenPositions :
       LET pos == ParsePosition(w)
       IN /\ OpenAccepts(w)
          /\ ~StartsWithSnapshot(pos)
          /\ ~StartsWithCDC(pos)
          /\ hist' = [hist EXCEPT !.opened = pos, !.given = w]
  /\ host' = [host EXCEPT !.opens = @ + 1, !.result = "invalid position mode"]
  /\ combined' = [snapshot |-> FALSE, cdc |-> FALSE]
  /\ snap' = NoSnapshot
  /\ snapPoll' = NoPoll
  /\ cdc' = NoCDC
  /\ cdcPoll' = NoPoll
  /\ UNCHANGED <<now, items, config, received, dest>>

\* Source.Open with a position that does not parse: Open returns the error
\* before it touches s.iterator
OpenParseFail ==
  /\ Quiet
  /\ Events < MaxEvents
  /\ spent' = [spent EXCEPT !.rejects = @ + 1]
  /\ host.pc = "closed"
  /\ \E w \in OpenPositions :
       /\ ~OpenAccepts(w)
       /\ hist' = [hist EXCEPT !.given = w]
  /\ host' = [host EXCEPT !.result = "parse position"]
  /\ UNCHANGED <<now, items, config, combined, snap, snapPoll, cdc, cdcPoll, received, dest>>

\* Source.Read, Combined.HasNext with the Snapshot active and not exhausted:
\* Read goes on to Next
ReadHasNextSnapshot ==
  /\ Quiet
  /\ host.pc = "idle"
  /\ combined.snapshot
  /\ SnapshotHasNext(snap)
  /\ host' = [host EXCEPT !.pc = "next", !.result = "none"]
  /\ UNCHANGED <<now, items, config, combined, snap, snapPoll, cdc, cdcPoll, received, hist, spent, dest>>

\* Combined.HasNext finds the Snapshot exhausted: switchToCDCIterator calls
\* NewCDC with a Position whose Timestamp points at snapshot.initialTimestamp
SwitchBegin ==
  /\ Quiet
  /\ host.pc = "idle"
  /\ combined.snapshot
  /\ ~SnapshotHasNext(snap)
  /\ cdc' = [NoCDC EXCEPT !.position = [NilPosition EXCEPT !.mode = CDCPositionMode],
                          !.tsAlias = TRUE,
                          !.session = host.opens]
  /\ cdcPoll' = NoPoll
  /\ host' = [host EXCEPT !.pc = "switching", !.result = "none"]
  /\ hist' = [hist EXCEPT !.seed = snap.initialTimestamp]
  /\ UNCHANGED <<now, items, config, combined, snap, snapPoll, received, spent, dest>>

\* NewCDC's initial load succeeds: go poll; switchToCDCIterator stops the
\* Snapshot and drops it; HasNext answers with the CDC iterator's HasNext
SwitchLoad ==
  /\ spent' = [spent EXCEPT !.unseen = FALSE]
  /\ CanRequest
  /\ now' = AfterRequest
  /\ host.pc = "switching"
  /\ snap.stopC = 0
  /\ LET c1 == CDCShifted(cdc, snap)
         s1 == SnapshotAfterCDCShift(cdc, snap)
         updatedAfter == CDCTimestamp(c1, s1)
         resp == processUpdatedItems(updatedAfter)
         c2 == CDCRouteAll(c1, resp.results, updatedAfter)
     IN /\ cdc' = c2
        /\ snap' = [s1 EXCEPT !.stopC = 1]
        /\ host' = IF CDCHasNext(c2)
                   THEN [host EXCEPT !.pc = "next"]
                   ELSE [host EXCEPT !.pc = "idle", !.result = "backoff"]
        /\ hist' = [hist EXCEPT !.asked = updatedAfter,
                                !.handoff = IF CDCHasNext(c2) THEN "next"
                                            ELSE "backoff"]
  /\ cdcPoll' = [NoPoll EXCEPT !.pc = "idle"]
  /\ combined' = [snapshot |-> FALSE, cdc |-> TRUE]
  /\ UNCHANGED <<items, config, snapPoll, received, dest>>

\* NewCDC's initial load fails after the shift: c.cdc becomes nil, the
\* Snapshot stays, HasNext and Read return the error
SwitchLoadFail ==
  /\ CanRequest
  /\ now' = AfterRequest
  /\ Events < MaxEvents
  /\ spent' = [spent EXCEPT !.failures = @ + 1, !.unseen = FALSE]
  /\ host.pc = "switching"
  /\ snap' = SnapshotAfterCDCShift(cdc, snap)
  /\ cdc' = NoCDC
  /\ host' = [host EXCEPT !.pc = "idle", !.result = "error"]
  /\ UNCHANGED <<items, config, combined, snapPoll, cdcPoll, received, hist, dest>>

\* Combined.HasNext with the CDC iterator active
ReadHasNextCDC ==
  /\ Quiet
  /\ host.pc = "idle"
  /\ ~combined.snapshot
  /\ combined.cdc
  /\ host' = IF CDCHasNext(cdc)
             THEN [host EXCEPT !.pc = "next", !.result = "none"]
             ELSE [host EXCEPT !.result = "backoff"]
  /\ UNCHANGED <<now, items, config, combined, snap, snapPoll, cdc, cdcPoll, received, hist, spent, dest>>

\* Combined.Next -> Snapshot.Next: a record of the queue
SnapshotNextRecord ==
  /\ Quiet
  /\ host.pc = "next"
  /\ combined.snapshot
  /\ snap.records # <<>>
  /\ Len(received) < MaxReads
  /\ received' = Append(received, Head(snap.records))
  /\ snap' = [snap EXCEPT !.records = Tail(@)]
  /\ host' = [host EXCEPT !.pc = "idle", !.result = "record"]
  /\ UNCHANGED <<now, items, config, combined, snapPoll, cdc, cdcPoll, hist, spent, dest>>

\* Combined.Next -> Snapshot.Next: the async error
SnapshotNextError ==
  /\ Quiet
  /\ host.pc = "next"
  /\ combined.snapshot
  /\ snap.errC # <<>>
  /\ snap' = [snap EXCEPT !.errC = <<>>]
  /\ host' = [host EXCEPT !.pc = "idle", !.result = "error"]
  /\ UNCHANGED <<now, items, config, combined, snapPoll, cdc, cdcPoll, received, hist, spent, dest>>

\* a Next that takes the record queued last
CDCNextRecordLast ==
  /\ Quiet
  /\ host.pc = "next"
  /\ ~combined.snapshot
  /\ combined.cdc
  /\ cdc.records # <<>>
  /\ Len(received) < MaxReads
  /\ received' = Append(received, Last(cdc.records))
  /\ cdc' = [cdc EXCEPT !.records = SubSeq(@, 1, Len(@) - 1)]
  /\ host' = [host EXCEPT !.pc = "idle", !.result = "record"]
  /\ UNCHANGED <<now, items, config, combined, snap, snapPoll, cdcPoll, hist, spent, dest>>

\* Combined.Next -> CDC.Next: a record of the queue
CDCNextRecord ==
  /\ Quiet
  /\ host.pc = "next"
  /\ ~combined.snapshot
  /\ combined.cdc
  /\ cdc.records # <<>>
  /\ Len(received) < MaxReads
  /\ received' = Append(received, Head(cdc.records))
  /\ cdc' = [cdc EXCEPT !.records = Tail(@)]
  /\ host' = [host EXCEPT !.pc = "idle", !.result = "record"]
  /\ UNCHANGED <<now, items, config, combined, snap, snapPoll, cdcPoll, hist, spent, dest>>

\* Combined.Next -> CDC.Next: the async error
CDCNextError ==
  /\ Quiet
  /\ host.pc = "next"
  /\ ~combined.snapshot
  /\ combined.cdc
  /\ cdc.errC # <<>>
  /\ cdc' = [cdc EXCEPT !.errC = <<>>]
  /\ host' = [host EXCEPT !.pc = "idle", !.result = "error"]
  /\ UNCHANGED <<now, items, config, combined, snap, snapPoll, cdcPoll, received, hist, spent, dest>>

\* a Next that answers a cancelled context with the zero record and no error
SnapshotNextCancelledAsRecord ==
  /\ Quiet
  /\ host.pc = "next"
  /\ combined.snapshot
  /\ host' = [host EXCEPT !.pc = "idle", !.result = "record"]
  /\ UNCHANGED <<now, items, config, combined, snap, snapPoll, cdc, cdcPoll, received, hist, spent, dest>>

\* Combined.Next -> Snapshot.Next, case <-ctx.Done(): the context of the Read
\* is cancelled while Next waits; the select may take this case whether or
\* not a record or an error is there as well
SnapshotNextCancelled ==
  /\ Quiet
  /\ host.pc = "next"
  /\ combined.snapshot
  /\ host' = [host EXCEPT !.pc = "idle", !.result = "context cancelled"]
  /\ UNCHANGED <<now, items, config, combined, snap, snapPoll, cdc, cdcPoll, received, hist, spent, dest>>

\* Combined.Next -> CDC.Next, case <-ctx.Done()
CDCNextCancelled ==
  /\ Quiet
  /\ host.pc = "next"
  /\ ~combined.snapshot
  /\ combined.cdc
  /\ host' = [host EXCEPT !.pc = "idle", !.result = "context cancelled"]
  /\ UNCHANGED <<now, items, config, combined, snap, snapPoll, cdc, cdcPoll, received, hist, spent, dest>>

\* Source.Teardown -> Combined.Stop: a stop signal to each iterator that is
\* set (the send blocks while an earlier signal is still in the channel)
Teardown ==
  /\ Quiet
  /\ Events < MaxEvents
  /\ spent' = [spent EXCEPT !.teardowns = @ + 1]
  /\ host.pc = "idle"
  /\ combined.snapshot => snap.stopC = 0
  /\ combined.cdc => cdc.stopC = 0
  /\ snap' = IF combined.snapshot THEN [snap EXCEPT !.stopC = 1] ELSE snap
  /\ cdc' = IF combined.cdc THEN [cdc EXCEPT !.stopC = 1] ELSE cdc
  /\ host' = [host EXCEPT !.pc = "closed", !.result = "none"]
  /\ UNCHANGED <<now, items, config, combined, snapPoll, cdcPoll, received, hist, dest>>

\* Source.Teardown called once more on the torn-down source: Combined.Stop
\* sends a second signal to the iterator that is set.  stopC holds one
\* signal: where the poll task has taken the first, the send goes through;
\* where the first is still in the channel, the send waits for a receiver
\* and the host waits with it
TeardownAgain ==
  /\ Quiet
  /\ Events < MaxEvents
  /\ spent' = [spent EXCEPT !.teardowns = @ + 1]
  /\ host.pc = "closed"
  /\ host.opens > 0
  /\ combined.snapshot \/ combined.cdc
  /\ LET snapWaits == combined.snapshot /\ snap.stopC > 0
         cdcWaits == combined.cdc /\ cdc.stopC > 0
     IN /\ snap' = IF combined.snapshot /\ ~snapWaits
                   THEN [snap EXCEPT !.stopC = 1] ELSE snap
        /\ cdc' = IF combined.cdc /\ ~snapWaits /\ ~cdcWaits
                  THEN [cdc EXCEPT !.stopC = 1] ELSE cdc
        /\ host' = [host EXCEPT !.pc = IF snapWaits \/ cdcWaits
                                       THEN "blocked" ELSE "closed"]
  /\ UNCHANGED <<now, items, config, combined, snapPoll, cdcPoll, received, hist, dest>>

\* the send the host waits in goes through once the poll task has taken the
\* earlier signal (Combined has one iterator set at a time)
TeardownResume ==
  /\ Quiet
  /\ host.pc = "blocked"
  /\ IF combined.snapshot
     THEN /\ snap.stopC = 0
          /\ snap' = [snap EXCEPT !.stopC = 1]
          /\ cdc' = cdc
     ELSE /\ cdc.stopC = 0
          /\ cdc' = [cdc EXCEPT !.stopC = 1]
          /\ snap' = snap
  /\ host' = [host EXCEPT !.pc = "closed"]
  /\ UNCHANGED <<now, items, config, combined, snapPoll, cdcPoll, received, hist, spent, dest>>

\* Source.Teardown before any Open: s.iterator is the nil interface, the
\* guard of Teardown skips Stop and nothing changes
TeardownUnopened ==
  /\ Quiet
  /\ Events < MaxEvents
  /\ spent' = [spent EXCEPT !.teardowns = @ + 1]
  /\ host.pc = "closed"
  /\ host.opens = 0
  /\ UNCHANGED <<now, items, config, combined, snap, snapPoll, cdc, cdcPoll, host, received, hist, dest>>

\* Source.Teardown after an Open that failed: Open has assigned NewCombined's
\* nil *Combined to s.iterator, an interface value that holds a nil pointer
\* and so is not nil; the guard of Teardown passes, Combined.Stop runs on
\* the nil receiver and reads c.snapshot: nil pointer dereference
TeardownFailedOpen ==
  /\ Quiet
  /\ Events < MaxEvents
  /\ spent' = [spent EXCEPT !.teardowns = @ + 1]
  /\ host.pc = "closed"
  /\ host.opens > 0
  /\ ~combined.snapshot /\ ~combined.cdc
  /\ host' = [host EXCEPT !.pc = "panicked", !.result = "nil pointer dereference"]
  /\ UNCHANGED <<now, items, config, combined, snap, snapPoll, cdc, cdcPoll, received, hist, dest>>

(***************************************************************************)
(* The specification.                                                      *)
(***************************************************************************)
Environment ==
  \/ \E k \in 1..MaxItems : CreateItems(k)
  \/ \E S \in SUBSET ItemIDs : UpdateItems(S)
  \/ \E i \in ItemIDs : DeleteItem(i)

\* the steps that issue a remote request
Request ==
  \/ OpenSnapshot
  \/ OpenCDC
  \/ OpenFail
  \/ SwitchLoad
  \/ SwitchLoadFail
  \/ SnapshotPollLoad
  \/ SnapshotPollLoadFail
  \/ CDCPollLoad
  \/ CDCPollLoadFail

\* the steps that issue none
Local ==
  \/ SnapshotPollPush
  \/ SnapshotPollSendErr
  \/ SnapshotPollExit
  \/ SnapshotPollDone
  \/ SnapshotContextCancelled
  \/ CDCPollPush
  \/ CDCPollSendErr
  \/ CDCPollExit
  \/ CDCPollDone
  \/ CDCContextCancelled
  \/ ReadHasNextSnapshot
  \/ SwitchBegin
  \/ OpenInvalidMode
  \/ OpenParseFail
  \/ ReadHasNextCDC
  \/ SnapshotNextRecord
  \/ SnapshotNextError
  \/ CDCNextRecord
  \/ CDCNextError
  \/ SnapshotNextCancelled
  \/ CDCNextCancelled
  \/ Teardown
  \/ TeardownAgain
  \/ TeardownResume
  \/ TeardownUnopened
  \/ TeardownFailedOpen

Next == Environment \/ Request \/ Local

Spec == Init /\ [][Next]_vars

\* the plugin run as a destination: the source is never opened, and its
\* settings do not matter
InitDestination ==
  /\ Init
  /\ items = <<>>
  /\ config.bufferSize = 1
  /\ config.snapshot

\* the host calls Destination.Write with a batch
NextDestination ==
  \/ DestinationWriteBegin
  \/ DestinationWriteRecord
  \/ DestinationWriteReturn

SpecDestination == InitDestination /\ [][NextDestination]_vars

(***************************************************************************)
(* What the properties speak of.                                           *)
(***************************************************************************)
IsSnapshotRecord(r) == r.operation = "snapshot"

IsCDCRecord(r) == r.operation # "snapshot"

\* the records Read has returned since the last Open, and before it
SessionReceived == SelectSeq(received, LAMBDA r : r.session = host.opens)

EarlierReceived == SelectSeq(received, LAMBDA r : r.session < host.opens)

\* the snapshot-operation records of item i that Read has returned
SnapshotRecordsOf(i) ==
  {k \in DOMAIN received : IsSnapshotRecord(received[k]) /\ received[k].key = i}

\* the CDC records Read has returned for item i as of update time u
CDCRecordsOf(i, u) ==
  {k \in DOMAIN received :
     /\ IsCDCRecord(received[k])
     /\ received[k].key = i
     /\ received[k].from.item.updatedAt = u}

\* the Snapshot reported exhaustion and Combined runs on the CDC iterator
HandedOff == hist.T # NoTime /\ ~combined.snapshot /\ combined.cdc

CDCActive == ~combined.snapshot /\ combined.cdc

\* the CDC records the running iterator has emitted: returned or queued
CDCEmitted == SelectSeq(SessionReceived, IsCDCRecord) \o cdc.records

\* the (item, update time) pairs the running CDC iterator has fetched, in
\* order: returned by Read, queued, or fetched and about to be queued
CDCFlow ==
  [k \in DOMAIN CDCEmitted |->
     <<CDCEmitted[k].key, CDCEmitted[k].from.item.updatedAt>>]
  \o [k \in DOMAIN cdcPoll.pending |->
        <<cdcPoll.pending[k].id, cdcPoll.pending[k].updatedAt>>]

InCDCFlow(i, u) == \E k \in DOMAIN CDCFlow : CDCFlow[k] = <<i, u>>

\* the ids of the items the running Snapshot has fetched, in order: returned
\* by Read, queued, or fetched and about to be queued
SnapshotFlow ==
  LET got == SelectSeq(SessionReceived, IsSnapshotRecord)
  IN [k \in DOMAIN got |-> got[k].key]
     \o [k \in DOMAIN snap.records |-> snap.records[k].key]
     \o [k \in DOMAIN snapPoll.pending |-> snapPoll.pending[k].id]

\* a page as the ids, and as the (id, update time) pairs, of its results
PageIDs(resp) == [k \in DOMAIN resp.results |-> resp.results[k].id]

PagePairs(resp) ==
  [k \in DOMAIN resp.results |-> <<resp.results[k].id, resp.results[k].updatedAt>>]

\* a load step of the Snapshot returns an item, be it the one of the next
\* tick or, for a resource paged by link, the one after the link is cleared
SnapshotCanFetch(s) ==
  \/ listItems(s).results # <<>>
  \/ listItems([s EXCEPT !.nextLink = NoLink]).results # <<>>

\* the items the Snapshot has fetched, queued or about to be queued, that no
\* Read has returned
SnapshotUndelivered ==
  ({snap.records[k].key : k \in DOMAIN snap.records}
     \cup {snapPoll.pending[k].id : k \in DOMAIN snapPoll.pending})
    \ {received[k].key : k \in {j \in DOMAIN received : IsSnapshotRecord(received[j])}}

\* the step is a load step of the CDC iterator's poll task: the task leaves
\* its wait with a new request bound or with an error to send
CDCPollRequests ==
  /\ cdcPoll.pc = "idle"
  /\ now' # now
  /\ cdcPoll'.pc \in {"idle", "push", "senderr"}
  /\ cdcPoll'.pc = "senderr" \/ cdcPoll'.updatedAfter # cdcPoll.updatedAfter

\* the step is a load step of the Snapshot's poll task
SnapshotPollRequests ==
  /\ snapPoll.pc = "idle"
  /\ now' # now
  /\ snapPoll'.pc \in {"idle", "push", "senderr"}
  /\ snap'.session = snap.session
  /\ UNCHANGED <<host, combined, cdcPoll>>

\* every record an iterator has emitted and the model still holds: returned
\* by Read, or queued
EmittedRecords == received \o snap.records \o cdc.records

\* the sdk.Positions at hand: the empty one, the ones that are not ours, the
\* one of every record emitted, the one the last Open was called with
SDKPositions ==
  {EmptySDKPosition, InvalidSDKPosition, ForeignSDKPosition, hist.given}
    \cup {EmittedRecords[k].position : k \in DOMAIN EmittedRecords}

\* Positions at hand: the ones the iterators hold, the one the last Open
\* parsed, and every combination of a mode, an id and the instants of the
\* moment
Positions ==
  ({SnapshotPosition(snap), hist.opened,
    [cdc.position EXCEPT !.timestamp = CDCTimestamp(cdc, snap)]}
     \ {NilPosition})
    \cup [mode : {SnapshotPositionMode, CDCPositionMode},
          itemID : {0, MaxItems},
          initialTimestamp : {NoTime, TimeNow},
          timestamp : {NoTime, now}]

\* a step that is a call of Source.Open
OpenStep ==
  /\ host.pc = "closed"
  /\ host'.pc # "panicked"
  /\ host'.opens # host.opens \/ spent'.rejects # spent.rejects

\* a call of Source.Open without a resume position that constructed an
\* iterator
ColdStart ==
  /\ OpenStep
  /\ host'.pc = "idle"
  /\ DOMAIN hist'.given = {}

\* the queue new holds what the queue old held, but for a record taken
\* from its head, with nothing but appended records after it
QueueKept(old, new) ==
  \E d \in {0, 1} :
    /\ d <= Len(old)
    /\ Len(new) >= Len(old) - d
    /\ \A k \in 1..(Len(old) - d) : new[k] = old[k + d]

\* the ids of the items are in the order of their creation
IdsFollowCreation ==
  \A i, j \in ItemIDs : i < j => items[i].createdAt <= items[j].createdAt

\* the change of item i is one the CDC request of the resource can return
VisibleToCDC(i) == config.resource \in DOMAIN TimestampResources \/ ~Archived(i)

(***************************************************************************)
(* Claims.                                                                 *)
(***************************************************************************)
\* C1 -- Snapshot completeness: with N items, all created before the
\* captured initialTimestamp and never written to afterwards, once the
\* Snapshot has reported exhaustion and Combined has handed off, Read has
\* returned each of the N items as a snapshot record exactly once, for every
\* buffer size and every interleaving of the poll task with the consumer.
C1_SnapshotCompleteness ==
  (HandedOff /\ Events = 0) =>
    \A i \in ItemIDs :
      items[i].createdAt < hist.T => Cardinality(SnapshotRecordsOf(i)) = 1

\* C2 -- Snapshot resumability: N items whose ids follow their creation
\* times; the Snapshot is stopped after k < N records (each of a different
\* item), a new one is opened from the Position of the last record; the new
\* one returns no item that was received before the stop, and once it has
\* reported exhaustion the records of both runs together hold each of the N
\* items exactly once.
C2_SnapshotResumability ==
  ( /\ hist.resumed
    /\ spent.writes = 0 /\ spent.failures = 0 /\ spent.teardowns = 1
    /\ \A i, j \in ItemIDs : i < j => items[i].createdAt <= items[j].createdAt
    /\ Len(EarlierReceived) < Len(items)
    /\ \A k, l \in DOMAIN EarlierReceived :
         EarlierReceived[k].key = EarlierReceived[l].key => k = l ) =>
    \A i \in ItemIDs :
      /\ Cardinality(SnapshotRecordsOf(i)) <= 1
      /\ (HandedOff /\ items[i].createdAt < hist.T)
           => Cardinality(SnapshotRecordsOf(i)) = 1

\* C3 -- Handoff continuity: an item created at T + 1ms, T the Snapshot's
\* initialTimestamp, is never returned as a snapshot record, is returned by
\* the CDC iterator at most once, and, once the CDC watermark has passed
\* T + 1ms with the item unchanged, has been fetched by the CDC iterator
\* (returned, queued or about to be queued).
C3_HandoffContinuity ==
  (hist.T # NoTime /\ ~hist.resumed /\ spent.teardowns = 0) =>
    \A i \in ItemIDs :
      items[i].createdAt = hist.T + OneMillisecond =>
        /\ SnapshotRecordsOf(i) = {}
        /\ Cardinality(CDCRecordsOf(i, items[i].createdAt)) <= 1
        /\ ( /\ HandedOff
             /\ VisibleToCDC(i)
             /\ items[i].updatedAt = items[i].createdAt
             /\ CDCTimestamp(cdc, snap) > items[i].createdAt )
           => InCDCFlow(i, items[i].createdAt)

\* C4 -- Handoff seed: whenever Combined constructs the CDC iterator on
\* finding the Snapshot exhausted, the Timestamp it hands to NewCDC is the
\* instant T the Snapshot captured at its start.
C4_HandoffSeed ==
  (host.pc = "switching" /\ ~hist.resumed) => CDCTimestamp(cdc, snap) = hist.T

\* C5 -- CDC classification: every record the CDC iterator emits is a delete
\* if the resource declares a deletion-time field and the item's deletion
\* time is not the epoch; otherwise a create if the item's creation time is
\* strictly after the pre-shift watermark of the query that returned it;
\* otherwise an update.
C5_Classification ==
  \A k \in DOMAIN CDCEmitted :
    LET r == CDCEmitted[k]
        item == r.from.item
        preShift == r.from.updatedAfter - OneMillisecond
        declared == DeletedAtFieldName(config.resource) # ""
    IN r.operation = IF declared /\ item.deletedAt # Epoch THEN "delete"
                     ELSE IF item.createdAt > preShift THEN "create"
                     ELSE "update"

\* C6 -- At-least-once across a restart in CDC mode: the host stopped after
\* CDC record r and reopened from r's Position; every change the resource
\* holds with an update time at or after r's that the host had not received
\* before the stop has been fetched by the new CDC iterator (returned,
\* queued or about to be queued) once its watermark has passed that change.
C6_AtLeastOnceAcrossRestart ==
  (CDCActive /\ EarlierReceived # <<>> /\ IsCDCRecord(Last(EarlierReceived))) =>
    LET r == Last(EarlierReceived)
    IN \A i \in ItemIDs :
         ( /\ items[i].updatedAt >= ParseTime(r.position["timestamp"])
           /\ VisibleToCDC(i)
           /\ \A k \in DOMAIN EarlierReceived :
                <<EarlierReceived[k].key, EarlierReceived[k].from.item.updatedAt>>
                  # <<i, items[i].updatedAt>>
           /\ CDCTimestamp(cdc, snap) > items[i].updatedAt )
         => InCDCFlow(i, items[i].updatedAt)

\* C7 -- Items with identical update time: with no failure and no restart,
\* two items changed at the same instant after the CDC iterator's seed have
\* both been fetched by it, in the order the API returns them, once its
\* watermark has passed that instant, for every buffer size.
C7_IdenticalUpdateTimes ==
  (CDCActive /\ spent.failures = 0 /\ spent.teardowns = 0) =>
    \A i, j \in ItemIDs :
      ( /\ i < j
        /\ items[i].updatedAt = items[j].updatedAt
        /\ items[i].updatedAt > hist.seed
        /\ VisibleToCDC(i) /\ VisibleToCDC(j)
        /\ CDCTimestamp(cdc, snap) > items[i].updatedAt )
      => \E k, l \in DOMAIN CDCFlow :
           /\ k < l
           /\ CDCFlow[k] = <<i, items[i].updatedAt>>
           /\ CDCFlow[l] = <<j, items[j].updatedAt>>

\* C8 -- Watermark monotonicity: no step (a load that returns nothing, one
\* that returns items, one that fails, the routing of an item) lowers the
\* Timestamp of the running Position of a CDC iterator, and the timestamps of
\* the Positions of the records an iterator has emitted never decrease along
\* the order of emission.
C8_WatermarkMonotonic ==
  [][ /\ ( /\ cdc.position # NilPosition
           /\ cdc'.position # NilPosition
           /\ cdc'.session = cdc.session )
         => CDCTimestamp(cdc', snap') >= CDCTimestamp(cdc, snap)
      /\ \A k, l \in DOMAIN CDCEmitted' :
           k < l => ParseTime(CDCEmitted'[k].position["timestamp"])
                      <= ParseTime(CDCEmitted'[l].position["timestamp"]) ]_vars

\* two records with different timestamps have been emitted and a further
\* load has moved the running Timestamp past the later one
C8_Witness ==
  /\ CDCActive
  /\ \E k, l \in DOMAIN CDCEmitted :
       /\ k < l
       /\ ParseTime(CDCEmitted[k].position["timestamp"]) < ParseTime(CDCEmitted[l].position["timestamp"])
       /\ CDCTimestamp(cdc, snap) > ParseTime(CDCEmitted[l].position["timestamp"])

\* C9 -- No re-emission in CDC: within one CDC iterator no (item, update
\* time) pair is fetched twice, so none is emitted twice.
C9_NoReEmission ==
  \A k, l \in DOMAIN CDCFlow : CDCFlow[k] = CDCFlow[l] => k = l

\* a record of an item was returned, the item has not changed since, and a
\* later load step has run: the watermark is past the item's update time
C9_Witness ==
  /\ CDCActive
  /\ \E k \in DOMAIN SessionReceived :
       LET r == SessionReceived[k]
       IN /\ IsCDCRecord(r)
          /\ items[r.key].updatedAt = ParseTime(r.position["timestamp"])
          /\ VisibleToCDC(r.key)
          /\ CDCTimestamp(cdc, snap) > ParseTime(r.position["timestamp"])

\* C10 -- Snapshot isolation: no snapshot record, returned by Read or queued
\* in the Snapshot Combined reads from, is of an item created after the
\* instant T the Snapshot captured at its start.
C10_SnapshotIsolation ==
  ~hist.resumed =>
    /\ \A k \in DOMAIN SessionReceived :
         IsSnapshotRecord(SessionReceived[k]) => SessionReceived[k].createdAt <= hist.T
    /\ combined.snapshot =>
         \A k \in DOMAIN snap.records : snap.records[k].createdAt <= hist.T

\* C11 -- Construction of Combined: an Open decides from the snapshot flag
\* and the Position it parsed only.  Snapshot enabled and no Position or a
\* Position of mode snapshot: unless the initial load fails, the Snapshot is
\* the one iterator and its poll task runs.  Otherwise snapshot disabled or
\* a Position of mode cdc: unless the initial load fails, the CDC iterator is
\* the one iterator and its poll task runs.  Every other combination fails
\* with the invalid-position-mode error, and leaves no iterator and no poll
\* task.
C11_CombinedConstruction ==
  [][ (host.pc = "closed" /\ host'.opens # host.opens) =>
        LET pos == hist'.opened
            loaded == host'.result = "none"
        IN IF config.snapshot /\ (pos = NilPosition \/ pos.mode = SnapshotPositionMode)
           THEN /\ host'.result \in {"none", "error"}
                /\ loaded => /\ combined' = [snapshot |-> TRUE, cdc |-> FALSE]
                             /\ snapPoll'.pc = "idle" /\ cdcPoll' = NoPoll
           ELSE IF ~config.snapshot \/ pos.mode = CDCPositionMode
           THEN /\ host'.result \in {"none", "error"}
                /\ loaded => /\ combined' = [snapshot |-> FALSE, cdc |-> TRUE]
                             /\ cdcPoll'.pc = "idle" /\ snapPoll' = NoPoll
           ELSE /\ host'.result = "invalid position mode"
                /\ combined' = [snapshot |-> FALSE, cdc |-> FALSE]
                /\ snap' = NoSnapshot /\ cdc' = NoCDC
                /\ snapPoll' = NoPoll /\ cdcPoll' = NoPoll ]_vars

\* an Open was handed a Position of an unknown mode with snapshot enabled
C11_Witness ==
  /\ host.result = "invalid position mode"
  /\ config.snapshot
  /\ hist.opened.mode = "unknown"

\* C12 -- Resume in CDC mode: a Combined constructed from a Position of mode
\* cdc with timestamp W runs on the CDC iterator, the first request of that
\* iterator asked for the items changed at or after W + 1ms, and no snapshot
\* record is returned or queued, whether snapshotting is enabled or not.
C12_ResumeCDC ==
  ( /\ host.pc # "closed"
    /\ hist.opened # NilPosition
    /\ hist.opened.mode = CDCPositionMode
    /\ hist.opened.timestamp # NoTime ) =>
      /\ CDCActive
      /\ hist.asked = hist.opened.timestamp + OneMillisecond
      /\ \A k \in DOMAIN SessionReceived : IsCDCRecord(SessionReceived[k])
      /\ snap = NoSnapshot /\ snapPoll = NoPoll

\* with snapshotting enabled, the source was reopened from a cdc Position
C12_Witness ==
  /\ config.snapshot
  /\ host.pc = "idle"
  /\ hist.opened.mode = CDCPositionMode
  /\ hist.opened.timestamp # NoTime
  /\ CDCActive

\* C13 -- The handoff is one-way: while the same Combined lives, no step
\* (HasNext, Next, Stop, a poll task's step) takes it from the CDC iterator
\* back to a Snapshot, and every record Read returns while it runs on the
\* CDC iterator is a create, an update or a delete.
C13_OneWay ==
  [][ (CDCActive /\ host'.opens = host.opens) =>
        /\ CDCActive'
        /\ received' # received =>
             Last(received').operation \in {"create", "update", "delete"} ]_vars

\* after the handoff Read has returned a record of the CDC iterator
C13_Witness ==
  /\ HandedOff
  /\ hist.handoff # "none"
  /\ \E k \in DOMAIN SessionReceived : IsCDCRecord(SessionReceived[k])

C15_AsyncErrorDelivery ==
  /\ (host.pc = "idle" /\ CDCActive /\ cdc.errC # <<>>) =>
       \/ Len(cdc.records) > 0
       \/ cdcPoll.pc \in {"idle", "push"}
  /\ (host.pc = "idle" /\ combined.snapshot /\ snap.errC # <<>>) =>
       \/ Len(snap.records) > 0 \/ snap.hasMoreItems
       \/ snapPoll.pc \in {"idle", "push"}

\* C16 -- No indefinite blocking: after HasNext reported true, Next returns
\* a record or an error once the poll task has been scheduled often enough.
\* So while Next waits, a record or an error is there to take, or the poll
\* task holds one to hand over, or the load step of a coming tick returns
\* an item; this holds too when HasNext was true for an expected
\* continuation page only.  (Taken for items whose ids follow their creation
\* times, the order a search resource's id bound relies on.)
C16_NoIndefiniteBlocking ==
  /\ (host.pc = "next" /\ combined.snapshot /\ IdsFollowCreation) =>
       \/ snap.records # <<>> \/ snap.errC # <<>>
       \/ snapPoll.pc \in {"push", "senderr"}
       \/ snapPoll.pc = "idle" /\ SnapshotCanFetch(snap)
  /\ (host.pc = "next" /\ CDCActive) =>
       \/ cdc.records # <<>> \/ cdc.errC # <<>>
       \/ cdcPoll.pc \in {"push", "senderr"}

\* C17 -- Next under cancellation: a Next that leaves its wait while neither
\* a record nor an async error is there returns the cancellation error, never
\* a record; and a Next that returns the cancellation error takes nothing
\* from the record queue or the error slot and hands no record to the host.
C17_NextCancelled ==
  [][ /\ ( /\ host.pc = "next" /\ host'.pc # "next"
           /\ combined.snapshot => (snap.records = <<>> /\ snap.errC = <<>>)
           /\ CDCActive => (cdc.records = <<>> /\ cdc.errC = <<>>) ) =>
             /\ host'.result = "context cancelled"
             /\ received' = received
      /\ (host.pc = "next" /\ host'.result = "context cancelled") =>
           /\ received' = received
           /\ snap'.records = snap.records /\ snap'.errC = snap.errC
           /\ cdc'.records = cdc.records /\ cdc'.errC = cdc.errC ]_vars

\* a Read was cancelled while Next waited for a continuation page with
\* nothing queued
C17_Witness ==
  /\ host.result = "context cancelled"
  /\ combined.snapshot
  /\ snap.records = <<>> /\ snap.errC = <<>>
  /\ snap.hasMoreItems

\* C18 -- A failed load step keeps the running Position: a load step of the
\* Snapshot's poll task that fails leaves the Position, the continuation
\* link and the created-before bound as they were; a load step of the CDC
\* poll task that fails leaves the watermark such that every change the
\* failed request asked for is asked for again by the next one.
C18_FailedLoadKeepsPosition ==
  [][ /\ (snapPoll.pc = "idle" /\ snapPoll'.pc = "senderr") =>
           /\ snap'.position = snap.position
           /\ snap'.nextLink = snap.nextLink
           /\ snap'.initialTimestamp = snap.initialTimestamp
      /\ (cdcPoll.pc = "idle" /\ cdcPoll'.pc = "senderr") =>
           \A i \in ItemIDs :
             ( /\ VisibleToCDC(i)
               /\ items[i].updatedAt >= ShiftedTimestamp(CDCTimestamp(cdc, snap)) )
             => items[i].updatedAt >= ShiftedTimestamp(CDCTimestamp(cdc', snap')) ]_vars

\* C19 -- Backpressure: the record queue of an iterator never holds more
\* than bufferSize records; while it holds that many HasNext reports true;
\* and a poll task that has a record to push while the queue is full waits:
\* no step adds a record to the queue of its iterator or takes one from the
\* page the task holds, until a Next of the consumer has made room.
C19_Backpressure ==
  [][ /\ Len(snap'.records) <= config.bufferSize
      /\ Len(cdc'.records) <= config.bufferSize
      /\ (combined'.snapshot /\ Len(snap'.records) = config.bufferSize) =>
           SnapshotHasNext(snap')
      /\ (CDCActive' /\ Len(cdc'.records) = config.bufferSize) =>
           CDCHasNext(cdc')
      /\ ( /\ snapPoll.pc = "push" /\ Len(snap.records) = config.bufferSize
           /\ snap'.session = snap.session ) =>
           /\ snapPoll'.pc = snapPoll.pc
           /\ snapPoll'.pending = snapPoll.pending
           /\ Len(snap'.records) <= Len(snap.records)
      /\ ( /\ cdcPoll.pc = "push" /\ Len(cdc.records) = config.bufferSize
           /\ cdc'.session = cdc.session ) =>
           /\ cdcPoll'.pc = cdcPoll.pc
           /\ cdcPoll'.pending = cdcPoll.pending
           /\ Len(cdc'.records) <= Len(cdc.records) ]_vars

\* more items than the buffer takes: the queue is full and the poll task
\* waits with the next record
C19_Witness ==
  /\ combined.snapshot
  /\ Len(items) > config.bufferSize
  /\ Len(snap.records) = config.bufferSize
  /\ snapPoll.pc = "push"

\* C20 -- Ordering: within one sub-iterator the items flow in the order of
\* the pages: what the iterator has fetched (returned by Read, then queued,
\* then about to be queued) starts as the first page in the API's order;
\* every step leaves that sequence as it is, or appends to it the page the
\* load step of that moment gets, in the API's order.
C20_Ordering ==
  [][ /\ (combined'.snapshot /\ snap'.session # snap.session) =>
           SnapshotFlow' =
             PageIDs(listItems([snap' EXCEPT !.position.itemID = hist'.opened.itemID,
                                             !.nextLink = NoLink]))
      /\ (combined.snapshot /\ combined'.snapshot /\ snap'.session = snap.session) =>
           \/ SnapshotFlow' = SnapshotFlow
           \/ SnapshotFlow' = SnapshotFlow \o PageIDs(listItems(snap))
      /\ (CDCActive' /\ ~(CDCActive /\ cdc'.session = cdc.session)) =>
           CDCFlow' = PagePairs(processUpdatedItems(hist'.asked))
      /\ (CDCActive /\ CDCActive' /\ cdc'.session = cdc.session) =>
           \/ CDCFlow' = CDCFlow
           \/ CDCFlow' = CDCFlow \o PagePairs(processUpdatedItems(
                             ShiftedTimestamp(CDCTimestamp(cdc, snap)))) ]_vars

\* Read has returned the items of two pages of one Snapshot
C20_Witness ==
  /\ combined.snapshot
  /\ config.bufferSize = 1
  /\ Len(SessionReceived) >= 2
  /\ SessionReceived[1].key # SessionReceived[2].key

\* C21 -- Combined.Stop: a Teardown sends the stop signal to the iterator
\* Combined runs on and to no other: to the Snapshot before the handoff, to
\* the CDC iterator after it, never to a Snapshot that was dropped; and with
\* no iterator active it returns and changes nothing.
C21_StopPropagates ==
  [][ (spent'.teardowns # spent.teardowns) =>
        /\ host'.pc # "panicked"
        /\ combined.snapshot =>
             /\ snap'.stopC = snap.stopC + 1
             /\ cdc' = cdc
        /\ CDCActive =>
             /\ cdc'.stopC = cdc.stopC + 1
             /\ snap' = snap
        /\ (~combined.snapshot /\ ~combined.cdc) =>
             UNCHANGED <<combined, snap, snapPoll, cdc, cdcPoll, received>> ]_vars

\* C22 -- At most one poll task: in no state do the poll task of a Snapshot
\* and the poll task of the CDC iterator of one Combined both exist; the
\* Snapshot's poll task has returned before the CDC iterator's poll task
\* issues a request, and it issues none once the CDC iterator is installed.
C22_OnePollTask ==
  [][ /\ ~(PollAlive(snapPoll') /\ PollAlive(cdcPoll'))
      /\ CDCPollRequests => ~PollAlive(snapPoll)
      /\ SnapshotPollRequests => ~combined.cdc ]_vars

\* C23 -- Position invariant: the Position serialized into every emitted
\* record has mode snapshot or cdc; with mode snapshot it has an
\* initialTimestamp, with mode cdc it has a timestamp; a snapshot record has
\* mode snapshot, a create, update or delete record has mode cdc.
C23_PositionInvariant ==
  \A k \in DOMAIN EmittedRecords :
    LET r == EmittedRecords[k]
        pos == r.position
    IN /\ "mode" \in DOMAIN pos
       /\ pos["mode"] \in {SnapshotPositionMode, CDCPositionMode}
       /\ pos["mode"] = SnapshotPositionMode => "initialTimestamp" \in DOMAIN pos
       /\ pos["mode"] = CDCPositionMode => "timestamp" \in DOMAIN pos
       /\ r.operation = "snapshot" <=> pos["mode"] = SnapshotPositionMode
       /\ r.operation \in {"create", "update", "delete"}
            <=> pos["mode"] = CDCPositionMode

\* a Snapshot resumed from a Position has returned a record, has handed
\* off, and the CDC iterator has returned one
C23_Witness ==
  /\ hist.resumed
  /\ HandedOff
  /\ \E k \in DOMAIN SessionReceived : IsSnapshotRecord(SessionReceived[k])
  /\ \E k \in DOMAIN SessionReceived : IsCDCRecord(SessionReceived[k])

\* C24 -- Snapshot cut fixed: every snapshot record of the logical snapshot,
\* returned by Read or queued in the active Snapshot, carries the initialTimestamp captured when the snapshot first started,
\* and a Snapshot that resumed from a Position has that Position's
\* initialTimestamp as its created-before bound.
C24_SnapshotCutFixed ==
  /\ \A k \in DOMAIN received :
        IsSnapshotRecord(received[k]) =>
          ParseTime(received[k].position["initialTimestamp"]) = hist.T
  /\ combined.snapshot =>
        \A k \in DOMAIN snap.records :
          ParseTime(snap.records[k].position["initialTimestamp"]) = hist.T
  /\ (combined.snapshot /\ hist.resumed) =>
        snap.initialTimestamp = hist.opened.initialTimestamp

\* C25 -- Every emitted record is individually resumable: a snapshot record's
\* Position has the id of the record's own item as itemId, which is also the
\* record's key, and no later step changes a record that is queued or was
\* returned: a queue only loses its head to Next and grows at its end.
C25_Resumable ==
  [][ /\ \A k \in DOMAIN EmittedRecords' :
            LET r == EmittedRecords'[k]
            IN IsSnapshotRecord(r) =>
                 /\ "itemId" \in DOMAIN r.position
                 /\ r.position["itemId"] = r.from.item.id
                 /\ r.key = r.from.item.id
      /\ snap'.session = snap.session => QueueKept(snap.records, snap'.records)
      /\ cdc'.session = cdc.session => QueueKept(cdc.records, cdc'.records)
      /\ \A k \in DOMAIN received :
            k \in DOMAIN received' /\ received'[k] = received[k]
      /\ Len(received') > Len(received) =>
            \/ snap.records # <<>> /\ Last(received') = Head(snap.records)
            \/ cdc.records # <<>> /\ Last(received') = Head(cdc.records) ]_vars

\* with pages of one item, one snapshot record was returned and the record
\* of a later load step is queued
C25_Witness ==
  /\ combined.snapshot
  /\ config.bufferSize = 1
  /\ snap.records # <<>>
  /\ \E k \in DOMAIN SessionReceived :
        /\ IsSnapshotRecord(SessionReceived[k])
        /\ SessionReceived[k].key # Head(snap.records).key

\* C26 -- ParsePosition: a zero-length input fails with ErrEmptyPosition; a
\* non-empty input that does not decode fails with another error, which is
\* not ErrEmptyPosition; an input that decodes succeeds with a Position; and
\* with either error the Position returned is nil, never a default one.
C26_ParsePosition ==
  \A w \in SDKPositions :
    /\ DOMAIN w = {} => ParsePositionErr(w) = "ErrEmptyPosition"
    /\ (DOMAIN w # {} /\ ~IsJSON(w)) =>
         ParsePositionErr(w) \notin {"nil", "ErrEmptyPosition"}
    /\ (DOMAIN w # {} /\ IsJSON(w)) =>
         /\ ParsePositionErr(w) = "nil"
         /\ ParsePosition(w) # NilPosition
         /\ ParsePosition(w) = UnmarshalPosition(w)
    /\ ParsePositionErr(w) # "nil" => ParsePosition(w) = NilPosition

\* Open was called with bytes that do not decode and returned the error
C26_Witness ==
  /\ hist.given = InvalidSDKPosition
  /\ host.result = "parse position"

C28_OpenPosition ==
  [][ OpenStep =>
        /\ ~IsJSON(hist'.given) =>
              /\ host'.result = "parse position"
              /\ host'.pc = "closed"
              /\ UNCHANGED <<now, combined, snap, snapPoll, cdc, cdcPoll>>
        /\ DOMAIN hist'.given = {} =>
              /\ hist'.opened = NilPosition
              /\ host'.result # "parse position"
              /\ host'.pc = "idle" =>
                    IF config.snapshot
                    THEN /\ combined'.snapshot
                         /\ PollAlive(snapPoll')
                         /\ snap'.posAlias
                         /\ snap'.initialTimestamp = TimeNow
                    ELSE /\ combined'.cdc
                         /\ PollAlive(cdcPoll')
                         /\ hist'.seed = TimeNow ]_vars

\* a Source that was never opened has rejected bytes that do not decode: it
\* has no iterator and no poll task
C28_Witness ==
  /\ host.opens = 0
  /\ spent.rejects > 0
  /\ host.result = "parse position"
  /\ ~combined.snapshot /\ ~combined.cdc
  /\ ~PollAlive(snapPoll) /\ ~PollAlive(cdcPoll)

\* C29 -- Cold start watermark, as claimed: constructed with no resume
\* position, a CDC iterator (snapshotting disabled) starts with its watermark
\* at epoch zero, and a Snapshot starts with initialTimestamp equal to the
\* current time.
C29_ColdStartEpoch ==
  [][ ColdStart =>
        IF config.snapshot
        THEN snap'.initialTimestamp = now - RequestLatency
        ELSE hist'.seed = 0 ]_vars

\* C29, amended -- constructed with no resume position, a CDC iterator
\* (snapshotting disabled) starts with its watermark at the current time, and
\* a Snapshot starts with initialTimestamp equal to the current time.
C29_ColdStartNow ==
  [][ ColdStart =>
        IF config.snapshot
        THEN /\ combined'.snapshot
             /\ snap'.initialTimestamp = now - RequestLatency
        ELSE /\ combined'.cdc
             /\ hist'.seed = now - RequestLatency
             /\ hist'.asked = ShiftedTimestamp(now - RequestLatency) ]_vars

\* after the clock has moved on, a CDC iterator was constructed without a
\* resume position and snapshotting disabled
C29_Witness ==
  /\ ~config.snapshot
  /\ host.pc # "closed"
  /\ combined.cdc
  /\ DOMAIN hist.given = {}
  /\ hist.opened = NilPosition
  /\ hist.seed > StartTime

\* C30 -- Destination.Write hands the records of the batch to the writer in
\* order and stops at the first one whose write fails: it returns the number
\* of records written before it together with the error, and no record after
\* it is attempted; when every write succeeds it returns the length of the
\* batch and no error.
C30_WriteStopsAtFirstFailure ==
  /\ \A k \in DOMAIN dest.calls : dest.calls[k].i = k - 1
  /\ Len(dest.calls) <= Len(dest.records)
  /\ dest.pc = "writing" =>
        \A k \in DOMAIN dest.calls : dest.calls[k].err = "nil"
  /\ (dest.pc = "returned" /\ dest.err # "nil") =>
        /\ Len(dest.calls) = dest.written + 1
        /\ Last(dest.calls).err # "nil"
        /\ \A k \in 1..dest.written : dest.calls[k].err = "nil"
  /\ (dest.pc = "returned" /\ dest.err = "nil") =>
        /\ dest.written = Len(dest.records)
        /\ Len(dest.calls) = Len(dest.records)
        /\ \A k \in DOMAIN dest.calls : dest.calls[k].err = "nil"

\* Write returned with an error after it wrote one record and before it
\* reached the last one
C30_Witness ==
  /\ dest.pc = "returned"
  /\ dest.err # "nil"
  /\ dest.written = 1
  /\ Len(dest.records) = 3

\* C31 -- Snapshot.HasNext is truthful under concurrency: while the Snapshot
\* is the active iterator it answers false only when every item a load step
\* has fetched was returned by Next, none waiting in the queue or between the
\* page and the queue; and Combined stops and drops the Snapshot only when no
\* fetched item is undelivered.
C31_HasNextTruthful ==
  [][ /\ (combined'.snapshot /\ ~SnapshotHasNext(snap')) =>
            SnapshotUndelivered' = {}
      /\ (combined.snapshot /\ ~combined'.snapshot /\ combined'.cdc) =>
            SnapshotUndelivered = {} ]_vars

\* C32 -- After a load step has fetched the final page, a page without a
\* paging section, a later tick of the same Snapshot's poll task fetches
\* nothing to push: it does not list from the start again.
C32_NoReload ==
  [][ ( /\ combined.snapshot
        /\ ~snap.hasMoreItems
        /\ SnapshotPollRequests ) =>
          snapPoll'.pending = <<>> ]_vars

\* C33 -- For a search-based resource the id bound of the next load step,
\* the Position's itemID plus one, leaves out only items already fetched:
\* whatever ids and creation times the items have, every item of the
\* snapshot with an id below the bound was returned, is queued or is about
\* to be queued.
C33_IdBoundExcludesEmitted ==
  (combined.snapshot /\ config.resource \in SearchResources) =>
    \A i \in ItemIDs :
      ( /\ ~Archived(i)
        /\ items[i].createdAt <= snap.initialTimestamp
        /\ i < snap.position.itemID + 1 ) =>
          \/ i \in {snap.records[k].key : k \in DOMAIN snap.records}
          \/ i \in {snapPoll.pending[k].id : k \in DOMAIN snapPoll.pending}
          \/ \E k \in DOMAIN received :
                IsSnapshotRecord(received[k]) /\ received[k].key = i

\* C34 -- No gap at the seam: an item created at the Snapshot's
\* initialTimestamp T or later, unchanged since and alone in its millisecond,
\* is not missed by both iterators: once Combined has handed off with the
\* seed T and the CDC watermark has passed the item's creation time, the
\* Snapshot or the CDC iterator has fetched it.
C34_NoGapAtSeam ==
  ( /\ HandedOff
    /\ ~hist.resumed
    /\ spent.teardowns = 0
    /\ hist.seed = hist.T ) =>
    \A i \in ItemIDs :
      ( /\ items[i].createdAt >= hist.T
        /\ items[i].updatedAt = items[i].createdAt
        /\ \A j \in ItemIDs \ {i} : items[j].updatedAt # items[i].updatedAt
        /\ VisibleToCDC(i)
        /\ CDCTimestamp(cdc, snap) > items[i].createdAt ) =>
          \/ InCDCFlow(i, items[i].createdAt)
          \/ \E k \in DOMAIN SnapshotFlow : SnapshotFlow[k] = i

\* C35 -- while the Combined iterator runs on the CDC iterator and the host
\* has not torn the source down, the CDC poll task is running, whatever
\* became of the context of the call that started it
C35_CDCKeepsRunning ==
  (CDCActive /\ host.pc = "idle") => PollAlive(cdcPoll)

\* a poll task that waits where no step of another task can release it: with
\* a record for a full queue, or with an error for a taken error slot
PollBlocked(poll, it) ==
  \/ poll.pc = "push" /\ Len(it.records) >= config.bufferSize
  \/ poll.pc = "senderr" /\ it.errC # <<>>

\* C36 -- once the host has torn the source down, and with it stopped the
\* iterator Combined runs on, the poll task of that iterator is not left
\* waiting on a queue or an error slot that nobody takes from any more: it has
\* returned or it can still reach its select and return
C36_StopEndsPoll ==
  host.pc = "closed" =>
    /\ (combined.snapshot /\ snap.stopC > 0) => ~PollBlocked(snapPoll, snap)
    /\ (combined.cdc /\ cdc.stopC > 0) => ~PollBlocked(cdcPoll, cdc)

\* the host waits inside Stop for a signal to be taken that the poll task
\* will never take: the task has returned, or it waits itself
StopStuck ==
  /\ host.pc = "blocked"
  /\ \/ /\ combined.snapshot /\ snap.stopC > 0
        /\ ~PollAlive(snapPoll) \/ PollBlocked(snapPoll, snap)
     \/ /\ ~combined.snapshot /\ combined.cdc /\ cdc.stopC > 0
        /\ ~PollAlive(cdcPoll) \/ PollBlocked(cdcPoll, cdc)

\* C37 -- Stop never blocks its caller: in no reachable state is the host
\* left inside Teardown, waiting for good for its stop signal to be taken
C37_StopNeverBlocks ==
  ~StopStuck

\* C38 -- a handoff whose construction of the CDC iterator fails returns
\* the error and leaves Combined as it was: the Snapshot set, not stopped and
\* its poll task running, no CDC iterator installed; and the watermark the
\* next attempt will seed the CDC iterator with, the Snapshot's
\* initialTimestamp, is the one the failed attempt was seeded with
C38_FailedHandoff ==
  [][ (host.pc = "switching" /\ host'.result = "error") =>
        /\ host'.pc = "idle"
        /\ combined'.snapshot /\ ~combined'.cdc
        /\ snap'.stopC = 0
        /\ snapPoll' = snapPoll
        /\ cdc' = NoCDC
        /\ snap'.initialTimestamp = hist.seed ]_vars

\* C39 -- the frame of the handoff: constructing the CDC iterator and running
\* its loads changes CDC-owned state only; no step of the handoff or of the
\* CDC iterator changes the initialTimestamp of the Snapshot it was seeded
\* from
C39_HandoffFrame ==
  [][ (snap.session # 0 /\ snap'.session = snap.session) =>
        snap'.initialTimestamp = snap.initialTimestamp ]_vars

====
